---- MODULE Spec2Model ----
(***************************************************************************)
(* The streaming chat pipeline of ChatBox.tsx: sendMessage (request, read  *)
(* loop, line buffer, frame dispatch), stopGenerating and the clear button. *)
(*                                                                         *)
(* The wire text is a sequence of symbols.  Each symbol stands for one     *)
(* byte or one fixed run of bytes of the response body:                    *)
(*   "D"  the line prefix `data: `                                         *)
(*   "C"  `{"type":"content","data":"`      "Q"  the closing `"}`          *)
(*   "X"  `{"type":"error","error":"`       "Y"  `{"type":"error"}`        *)
(*   "E"  `{"type":"end"}`                  "O"  `{"type":"ping"}`         *)
(*   "a"  one ASCII character of a JSON string                             *)
(*   "h" "t"  the lead and the continuation byte of a two-byte UTF-8       *)
(*            character; decoded they give the character "e2"              *)
(*   NL   the line feed                                                    *)
(***************************************************************************)
EXTENDS Integers, Sequences, FiniteSets, TLC

\* ------------------------------------------------------------- bounds
MaxText == 6
MaxSessions == 2
MaxLines == 2
MaxChunkLines == 2

\* ------------------------------------------------------------ symbols
NL == "\n"
Prefix == <<"D">>
Lead == "h"
Trail == "t"
Decoded2 == "e2"
Replacement == "fffd"
StringChars == {"a", Decoded2, Replacement}
FeedBytes == {"D", "C", "Q", "E", Lead, Trail, NL}

\* messages, isLoading, inputValue, abortControllerRef: the component's state
\*   (abortControllerRef names the session whose controller it holds, 0 for
\*   null).  A Message carries `by`, the session that appended it, in place of
\*   its timestamp.
\* pc[s]: where the s-th call of sendMessage stands: "none" (not made),
\*   "fetch" (awaiting fetch), "read" (awaiting reader.read()), "exit".
\* closure[s]: the content line 114 reads for session s.
\* pending[s], buffer[s]: the bytes the TextDecoder holds back, and `buffer`.
\* History, kept while the loop of s runs: got[s] the payloads of the content
\*   lines it has dispatched, ended[s] its first end or error line; why[s] is
\*   how the call ended; nlines and ndropped count the lines read and those
\*   skipped or unparsable, over all sessions; spoken lists the onSpeak calls.
\* ftext .. fframes: a byte text, how much of it has been fed in how many
\*   reads, and the decoder, buffer and frames of the line buffer on its own.
VARIABLES
  messages, isLoading, inputValue, abortControllerRef,
  pc, closure, pending, buffer, nlines, ndropped, ended, got, why, spoken,
  ftext, fpos, fcalls, fpending, fbuffer, fframes

vars == <<messages, isLoading, inputValue, abortControllerRef,
          pc, closure, pending, buffer, nlines, ndropped, ended, got, why, spoken,
          ftext, fpos, fcalls, fpending, fbuffer, fframes>>
chatVars == <<messages, isLoading, inputValue, abortControllerRef,
              pc, closure, pending, buffer, nlines, ndropped, ended, got, why, spoken>>
feedVars == <<ftext, fpos, fcalls, fpending, fbuffer, fframes>>

\* ------------------------------------------------------ pure helpers
RECURSIVE SeqsUpTo(_, _)
SeqsUpTo(S, n) ==
  IF n = 0 THEN {<<>>}
  ELSE LET shorter == SeqsUpTo(S, n - 1)
       IN shorter \cup {Append(q, x) : q \in {r \in shorter : Len(r) = n - 1}, x \in S}

\* decoder.decode(value, {stream: true}): UTF-8 bytes to text.  A lead byte at
\* the end of a chunk is held back for the next call; a lead byte followed by
\* anything but a continuation byte, and a continuation byte on its own, decode
\* to U+FFFD.  p is the held-back part (empty or <<Lead>>).
RECURSIVE TextDecode(_, _)
TextDecode(p, bytes) ==
  IF bytes = <<>> THEN [text |-> <<>>, pending |-> p]
  ELSE LET b == Head(bytes)
           rest == Tail(bytes)
       IN IF p # <<>>
          THEN IF b = Trail
               THEN LET r == TextDecode(<<>>, rest)
                    IN [text |-> <<Decoded2>> \o r.text, pending |-> r.pending]
               ELSE LET r == TextDecode(<<>>, bytes)
                    IN [text |-> <<Replacement>> \o r.text, pending |-> r.pending]
          ELSE IF b = Lead THEN TextDecode(<<Lead>>, rest)
               ELSE LET r == TextDecode(<<>>, rest)
                    IN [text |-> <<(IF b = Trail THEN Replacement ELSE b)>> \o r.text,
                        pending |-> r.pending]

\* buffer.split('\n'): the pieces between line feeds, always at least one.
RECURSIVE Split(_)
Split(text) ==
  IF \A i \in 1..Len(text) : text[i] # NL THEN <<text>>
  ELSE LET i == CHOOSE j \in 1..Len(text) :
                  text[j] = NL /\ \A k \in 1..(j - 1) : text[k] # NL
       IN <<SubSeq(text, 1, i - 1)>> \o Split(SubSeq(text, i + 1, Len(text)))

\* A buffer that forgets the partial line between reads.
ResidualLost(text) == <<>>

\* lines after lines.pop(), and the popped element (`|| ''` maps an absent or
\* empty one to the empty string).
CompleteLines(text) == LET l == Split(text) IN SubSeq(l, 1, Len(l) - 1)
Residual(text) == LET l == Split(text) IN l[Len(l)]

\* line.startsWith('data: ') and line.slice(6)
StartsWith(line, p) == Len(line) >= Len(p) /\ SubSeq(line, 1, Len(p)) = p
Slice(line, n) == SubSeq(line, n + 1, Len(line))

\* JSON.parse(data) followed by the reads of parsed.type, parsed.data and
\* parsed.error.  A body that is no JSON text throws (type "throw").
IsString(s) == \A i \in 1..Len(s) : s[i] \in StringChars
JSONparse(data) ==
  IF data = <<"E">> THEN [type |-> "end", data |-> <<>>]
  ELSE IF data = <<"Y">> THEN [type |-> "error", data |-> <<>>]
  ELSE IF data = <<"O">> THEN [type |-> "ping", data |-> <<>>]
  ELSE IF Len(data) >= 2 /\ data[Len(data)] = "Q" /\ data[1] \in {"C", "X"}
          /\ IsString(SubSeq(data, 2, Len(data) - 1))
       THEN [type |-> IF data[1] = "C" THEN "content" ELSE "error",
             data |-> SubSeq(data, 2, Len(data) - 1)]
  ELSE [type |-> "throw", data |-> <<>>]

\* What one line of the loop body does before it touches any state: the parsed
\* object, or type "skip" for a line without the prefix.
ParseLine(line) ==
  IF StartsWith(line, Prefix) THEN JSONparse(Slice(line, Len(Prefix)))
  ELSE [type |-> "skip", data |-> <<>>]

IsFrame(p) == p.type \in {"content", "end", "error"}
IsDropped(p) == p.type \in {"skip", "throw"}

RECURSIVE ParseLines(_)
ParseLines(lines) ==
  IF lines = <<>> THEN <<>> ELSE <<ParseLine(Head(lines))>> \o ParseLines(Tail(lines))

RECURSIVE Frames(_)
Frames(ps) ==
  IF ps = <<>> THEN <<>>
  ELSE (IF IsFrame(Head(ps)) THEN <<Head(ps)>> ELSE <<>>) \o Frames(Tail(ps))

\* One pass of the loop body after a read that returned `bytes`: decode,
\* append to the buffer, split, keep the last piece.
Feed(p, buf, bytes) ==
  LET d == TextDecode(p, bytes)
      text == buf \o d.text
  IN [pending |-> d.pending,
      buffer |-> Residual(text),
      parsed |-> ParseLines(CompleteLines(text))]

\* ----------------------------------------------- the line buffer alone
FeedTexts == SeqsUpTo(FeedBytes, MaxText)

FeedChunk ==
  \E n \in 1..(Len(ftext) - fpos) :
    LET r == Feed(fpending, fbuffer, SubSeq(ftext, fpos + 1, fpos + n))
    IN /\ fpos' = fpos + n
       /\ fcalls' = fcalls + 1
       /\ fpending' = r.pending
       /\ fbuffer' = r.buffer
       /\ fframes' = fframes \o Frames(r.parsed)
       /\ UNCHANGED ftext

\* ------------------------------------------------------ the chat state
Sessions == 1..MaxSessions
\* No end or error frame applied yet.
NoEnd == [kind |-> "no", before |-> <<>>]
Warn == "warn"
NoKeyText == <<"nokey">>
RejectedText == <<"rejected">>
NoReaderText == <<"noreader">>
RetryText == <<"retry">>
FailedText == <<"failed">>
\* error.message of a rejected fetch or read; it may be empty.
TransportMessages == {<<"neterr">>}
\* What the user can have typed (the field starts empty).
Inputs == {<<"q", " ">>}

\* The lines a server writes, as bytes without the line feed.
LineMenu ==
  { <<"D", "C", "a", "Q">>, <<"D", "C", Lead, Trail, "Q">>, <<"D", "E">>,
    <<"D", "X", "a", "Q">>, <<"D", "Y">>, <<"D", "O">>,
    <<"D", "C", "a">>, <<>> }

\* message.trim()
RECURSIVE TrimLeft(_)
TrimLeft(t) == IF t # <<>> /\ Head(t) = " " THEN TrimLeft(Tail(t)) ELSE t
RECURSIVE TrimRight(_)
TrimRight(t) ==
  IF t # <<>> /\ t[Len(t)] = " " THEN TrimRight(SubSeq(t, 1, Len(t) - 1)) ELSE t
Trim(t) == TrimRight(TrimLeft(t))

UserMessage(s, text) == [role |-> "user", content |-> text, by |-> s]
AssistantMessage(s) == [role |-> "assistant", content |-> <<>>, by |-> s]
\* `⚠️ ${error.message || '请求失败，请稍后重试'}`
ErrorMessage(s, msg) ==
  [role |-> "assistant",
   content |-> <<Warn>> \o (IF msg = <<>> THEN RetryText ELSE msg),
   by |-> s]

\* messages[messages.length - 1]?.content || ''
LastContent(msgs) == IF msgs = <<>> THEN <<>> ELSE msgs[Len(msgs)].content

Started == Cardinality({s \in Sessions : pc[s] # "none"})

Init ==
  /\ messages = <<>>
  /\ isLoading = FALSE
  /\ inputValue = <<>>
  /\ abortControllerRef = 0
  /\ pc = [s \in Sessions |-> "none"]
  /\ closure = [s \in Sessions |-> <<>>]
  /\ pending = [s \in Sessions |-> <<>>]
  /\ buffer = [s \in Sessions |-> <<>>]
  /\ nlines = 0
  /\ ndropped = 0
  /\ ended = [s \in Sessions |-> NoEnd]
  /\ got = [s \in Sessions |-> <<>>]
  /\ why = [s \in Sessions |-> "none"]
  /\ spoken = <<>>
  /\ ftext = <<>>
  /\ fpos = 0
  /\ fcalls = 0
  /\ fpending = <<>>
  /\ fbuffer = <<>>
  /\ fframes = <<>>

\* A catch block that reports nothing, and one that reports an abort too.
CatchSilent(msgs, s, name, msg) ==
  /\ messages' = msgs
  /\ isLoading' = FALSE
  /\ pc' = [pc EXCEPT ![s] = "exit"]
  /\ why' = [why EXCEPT ![s] = name]
  /\ closure' = [closure EXCEPT ![s] = <<>>]
  /\ pending' = [pending EXCEPT ![s] = <<>>]
  /\ buffer' = [buffer EXCEPT ![s] = <<>>]
  /\ ended' = [ended EXCEPT ![s] = NoEnd]
  /\ got' = [got EXCEPT ![s] = <<>>]
CatchNotice(msgs, s, name, msg) ==
  /\ messages' = Append(msgs, ErrorMessage(s, msg))
  /\ isLoading' = FALSE
  /\ pc' = [pc EXCEPT ![s] = "exit"]
  /\ why' = [why EXCEPT ![s] = name]
  /\ closure' = [closure EXCEPT ![s] = <<>>]
  /\ pending' = [pending EXCEPT ![s] = <<>>]
  /\ buffer' = [buffer EXCEPT ![s] = <<>>]
  /\ ended' = [ended EXCEPT ![s] = NoEnd]
  /\ got' = [got EXCEPT ![s] = <<>>]

\* A catch block inside the loop: an abort is logged and the loop goes on.
CatchKeepsLoop(msgs, s, name, msg) ==
  /\ messages' = IF name = "AbortError" THEN msgs
                 ELSE Append(msgs, ErrorMessage(s, msg))
  /\ isLoading' = FALSE
  /\ pc' = IF name = "AbortError" THEN pc ELSE [pc EXCEPT ![s] = "exit"]
  /\ why' = [why EXCEPT ![s] = name]
  /\ UNCHANGED <<closure, pending, buffer, ended, got>>

\* The catch block of sendMessage for session s: `name` and `msg` are
\* error.name and error.message, msgs the transcript the throw finds.
Catch(msgs, s, name, msg) ==
  /\ messages' = IF name = "AbortError" THEN msgs
                 ELSE Append(msgs, ErrorMessage(s, msg))
  /\ isLoading' = FALSE
  /\ pc' = [pc EXCEPT ![s] = "exit"]
  /\ why' = [why EXCEPT ![s] = name]
  /\ closure' = [closure EXCEPT ![s] = <<>>]
  /\ pending' = [pending EXCEPT ![s] = <<>>]
  /\ buffer' = [buffer EXCEPT ![s] = <<>>]
  /\ ended' = [ended EXCEPT ![s] = NoEnd]
  /\ got' = [got EXCEPT ![s] = <<>>]

\* onChange of the input and the quick-question buttons.
SetInput ==
  /\ ~isLoading
  /\ Started < MaxSessions
  /\ \E v \in Inputs : inputValue' = v
  /\ UNCHANGED <<messages, isLoading, abortControllerRef, pc, closure, pending,
                 buffer, nlines, ndropped, ended, got, why, spoken>>
  /\ UNCHANGED feedVars

\* sendMessage up to its first await.  With a blank input or while loading it
\* returns at once.  The closure keeps the `messages` of the render that made
\* it; only its last element is read later (line 114), and that element is
\* never the last of the transcript again, so its content is already final.
SendMessage ==
  /\ UNCHANGED feedVars
  /\ IF Trim(inputValue) = <<>> \/ isLoading
     THEN UNCHANGED chatVars
     ELSE /\ Started < MaxSessions
          /\ LET s == Started + 1
                 withUser == Append(messages, UserMessage(s, Trim(inputValue)))
             IN /\ inputValue' = <<>>
                /\ abortControllerRef' = s
                /\ \E apiKey \in BOOLEAN :
                     IF apiKey
                     THEN /\ messages' = withUser
                          /\ isLoading' = TRUE
                          /\ pc' = [pc EXCEPT ![s] = "fetch"]
                          /\ closure' = [closure EXCEPT ![s] = LastContent(messages)]
                          /\ UNCHANGED <<why, pending, buffer, ended, got>>
                     ELSE Catch(withUser, s, "NoKey", NoKeyText)
                /\ UNCHANGED <<nlines, ndropped, spoken>>

\* The fetch settles: a success status with a body, a non-success status, a
\* response without a body, or a rejection (network failure).
FetchResolve(s) ==
  /\ pc[s] = "fetch"
  /\ \/ /\ messages' = Append(messages, AssistantMessage(s))
        /\ pc' = [pc EXCEPT ![s] = "read"]
        /\ UNCHANGED <<isLoading, why, closure, pending, buffer, ended, got>>
     \/ Catch(messages, s, "NotOk", RejectedText)
     \/ Catch(messages, s, "NoReader", NoReaderText)
     \/ \E msg \in TransportMessages : Catch(messages, s, "TypeError", msg)
  /\ UNCHANGED <<inputValue, abortControllerRef, nlines, ndropped, spoken>>
  /\ UNCHANGED feedVars

\* The three branches on parsed.type (lines 100-128) for one parsed line, on
\* st = [messages, isLoading, spoken].  An exception of JSON.parse is caught
\* inside the loop body and changes nothing.
SetLastContent(msgs, c) == [msgs EXCEPT ![Len(msgs)].content = c]
LastIsAssistant(msgs) == msgs # <<>> /\ msgs[Len(msgs)].role = "assistant"
\* A loop body whose JSON.parse exception reaches the outer catch block.
ApplyParsedThrowEscapes(st, s, p) ==
  IF p.type = "throw"
  THEN [st EXCEPT !.isLoading = FALSE,
                  !.messages = Append(@, ErrorMessage(s, <<"syntax">>))]
  ELSE IF p.type = "content" /\ LastIsAssistant(st.messages)
  THEN [st EXCEPT !.messages = SetLastContent(@, LastContent(@) \o p.data)]
  ELSE IF p.type \in {"end", "error"} THEN [st EXCEPT !.isLoading = FALSE]
  ELSE st
ApplyParsed(st, s, p) ==
  IF p.type = "content"
  THEN [st EXCEPT !.messages =
          IF LastIsAssistant(@) THEN SetLastContent(@, LastContent(@) \o p.data) ELSE @]
  ELSE IF p.type = "end"
  THEN [st EXCEPT !.isLoading = FALSE,
                  !.spoken = IF closure[s] # <<>>
                             THEN Append(@, [by |-> s, text |-> closure[s]])
                             ELSE @]
  ELSE IF p.type = "error"
  THEN [st EXCEPT !.isLoading = FALSE,
                  !.messages =
          IF LastIsAssistant(@)
          THEN SetLastContent(@, <<Warn>> \o (IF p.data # <<>> THEN p.data ELSE FailedText))
          ELSE @]
  ELSE st

RECURSIVE ApplyAll(_, _, _)
ApplyAll(st, s, ps) ==
  IF ps = <<>> THEN st
  ELSE ApplyAll(ApplyParsed(st, s, Head(ps)), s, Tail(ps))

\* The bytes of a text, to name what the server has sent of the current line.
RECURSIVE Encode(_)
Encode(text) ==
  IF text = <<>> THEN <<>>
  ELSE (IF Head(text) = Decoded2 THEN <<Lead, Trail>> ELSE <<Head(text)>>)
       \o Encode(Tail(text))

\* The texts of at most n whole lines followed by the start of one more.
PartialLines == UNION {{SubSeq(l, 1, k) : k \in 0..Len(l)} : l \in LineMenu}
RECURSIVE WireTexts(_)
WireTexts(n) ==
  IF n = 0 THEN PartialLines
  ELSE PartialLines \cup {l \o <<NL>> \o w : l \in LineMenu, w \in WireTexts(n - 1)}
WireTable == [n \in 0..MaxChunkLines |-> WireTexts(n)]
Min(a, b) == IF a < b THEN a ELSE b
\* What a read can return after `raw` of the current line has arrived: the
\* stream is made of menu lines and is cut anywhere.  room is the number of
\* line feeds the chunk may still hold.
Chunks(raw, room) ==
  LET n == Len(raw)
  IN {Slice(q, n) : q \in {x \in PartialLines : StartsWith(x, raw) /\ Len(x) > n}}
     \cup (IF room = 0 THEN {}
           ELSE {Slice(l, n) \o <<NL>> \o w :
                   l \in {x \in LineMenu : StartsWith(x, raw)},
                   w \in WireTable[Min(room, MaxChunkLines) - 1]})
CountDropped(ps) == Cardinality({i \in 1..Len(ps) : IsDropped(ps[i])})
RECURSIVE ContentOf(_)
ContentOf(ps) ==
  IF ps = <<>> THEN <<>>
  ELSE (IF Head(ps).type = "content" THEN Head(ps).data ELSE <<>>) \o ContentOf(Tail(ps))
\* The first end or error frame among ps, with the content frames applied
\* before it (sofar is what the session had applied already).
FirstTerminal(sofar, ps) ==
  IF \E i \in 1..Len(ps) : ps[i].type \in {"end", "error"}
  THEN LET i == CHOOSE k \in 1..Len(ps) :
                  /\ ps[k].type \in {"end", "error"}
                  /\ \A j \in 1..(k - 1) : ps[j].type \notin {"end", "error"}
       IN [kind |-> ps[i].type, before |-> sofar \o ContentOf(SubSeq(ps, 1, i - 1))]
  ELSE NoEnd

\* reader.read() resolves with a chunk: one pass of the loop body.
Read(s) ==
  /\ pc[s] = "read"
  /\ \E bytes \in Chunks(Encode(buffer[s]) \o pending[s], MaxLines - nlines) :
       LET r == Feed(pending[s], buffer[s], bytes)
           st == ApplyAll([messages |-> messages, isLoading |-> isLoading,
                           spoken |-> spoken], s, r.parsed)
       IN /\ pending' = [pending EXCEPT ![s] = r.pending]
          /\ buffer' = [buffer EXCEPT ![s] = r.buffer]
          /\ messages' = st.messages
          /\ isLoading' = st.isLoading
          /\ spoken' = st.spoken
          /\ nlines' = nlines + Len(r.parsed)
          /\ ndropped' = ndropped + CountDropped(r.parsed)
          /\ ended' = [ended EXCEPT ![s] =
                         IF @ = NoEnd THEN FirstTerminal(got[s], r.parsed) ELSE @]
          /\ got' = [got EXCEPT ![s] = @ \o ContentOf(r.parsed)]
  /\ UNCHANGED <<inputValue, abortControllerRef, pc, closure, why>>
  /\ UNCHANGED feedVars

\* reader.read() resolves with done: the loop breaks and sendMessage returns.
\* The buffer is dropped with the other locals.
ReadDone(s) ==
  /\ pc[s] = "read"
  /\ pc' = [pc EXCEPT ![s] = "exit"]
  /\ why' = [why EXCEPT ![s] = "done"]
  /\ closure' = [closure EXCEPT ![s] = <<>>]
  /\ pending' = [pending EXCEPT ![s] = <<>>]
  /\ buffer' = [buffer EXCEPT ![s] = <<>>]
  /\ ended' = [ended EXCEPT ![s] = NoEnd]
  /\ got' = [got EXCEPT ![s] = <<>>]
  /\ UNCHANGED <<messages, isLoading, inputValue, abortControllerRef,
                 nlines, ndropped, spoken>>
  /\ UNCHANGED feedVars

\* reader.read() rejects with a transport failure.
ReadFail(s) ==
  /\ pc[s] = "read"
  /\ \E msg \in TransportMessages : Catch(messages, s, "TypeError", msg)
  /\ UNCHANGED <<inputValue, abortControllerRef, nlines, ndropped, spoken>>
  /\ UNCHANGED feedVars

\* stopGenerating: the button is rendered only while isLoading.  The abort
\* rejects the pending fetch or read of the session the ref points to, and its
\* catch block runs before any other event.
StopGenerating ==
  /\ isLoading
  /\ LET s == abortControllerRef
     IN IF s # 0 /\ pc[s] \in {"fetch", "read"}
        THEN Catch(messages, s, "AbortError", <<>>)
        ELSE /\ isLoading' = FALSE
             /\ UNCHANGED <<messages, pc, why, closure, pending, buffer, ended, got>>
  /\ UNCHANGED <<inputValue, abortControllerRef, nlines, ndropped, spoken>>
  /\ UNCHANGED feedVars

\* The clear button: setMessages([]).
ClearMessages ==
  /\ messages' = <<>>
  /\ UNCHANGED <<isLoading, inputValue, abortControllerRef, pc, closure, pending,
                 buffer, nlines, ndropped, ended, got, why, spoken>>
  /\ UNCHANGED feedVars

Next ==
  \/ SetInput
  \/ SendMessage
  \/ \E s \in Sessions : FetchResolve(s)
  \/ \E s \in Sessions : Read(s)
  \/ \E s \in Sessions : ReadDone(s)
  \/ \E s \in Sessions : ReadFail(s)
  \/ StopGenerating
  \/ ClearMessages

Spec == Init /\ [][Next]_vars

\* The line buffer alone, over every byte text up to MaxText and every way of
\* cutting it into chunks; no chat session runs.
FeedInit ==
  /\ ftext \in FeedTexts
  /\ fpos = 0
  /\ fcalls = 0
  /\ fpending = <<>>
  /\ fbuffer = <<>>
  /\ fframes = <<>>
  /\ messages = <<>>
  /\ isLoading = FALSE
  /\ inputValue = <<>>
  /\ abortControllerRef = 0
  /\ pc = [s \in Sessions |-> "none"]
  /\ closure = [s \in Sessions |-> <<>>]
  /\ pending = [s \in Sessions |-> <<>>]
  /\ buffer = [s \in Sessions |-> <<>>]
  /\ nlines = 0
  /\ ndropped = 0
  /\ ended = [s \in Sessions |-> NoEnd]
  /\ got = [s \in Sessions |-> <<>>]
  /\ why = [s \in Sessions |-> "none"]
  /\ spoken = <<>>

FeedNext == FeedChunk /\ UNCHANGED chatVars

SpecFeed == FeedInit /\ [][FeedNext]_vars

\* ------------------------------------------------------------- claims
Live(s) == pc[s] \in {"fetch", "read"}
\* The states of the specification's session, read off the code's state.
Sending(s) == pc[s] = "fetch"
Streaming(s) == pc[s] = "read" /\ ended[s] = NoEnd
OwnAssistant(s) ==
  {i \in 1..Len(messages) : messages[i].by = s /\ messages[i].role = "assistant"}
Now == [messages |-> messages, isLoading |-> isLoading, spoken |-> spoken]
Front(q) == SubSeq(q, 1, Len(q) - 1)

\* C1: cutting a byte text into chunks anywhere and feeding them in order
\* gives the frames that feeding the same text as one chunk gives.
C1_FrameReassembly ==
  fframes = Frames(Feed(<<>>, <<>>, SubSeq(ftext, 1, fpos)).parsed)
C1_Witness ==
  /\ ftext = <<"D", "C", Lead, Trail, "Q", NL>>
  /\ fpos = 6 /\ fcalls = 6
  /\ fframes = <<[type |-> "content", data |-> <<Decoded2>>]>>

\* C2 as written: a session refused for a missing credential or a non-success
\* status leaves no assistant Message of its own in the transcript.
C2_NoAssistantTurn ==
  \A s \in Sessions : why[s] \in {"NoKey", "NotOk"} => OwnAssistant(s) = {}
\* C2 amended: the refusal clears the loading flag, ends the session and
\* appends exactly one assistant Message, the marked error notice, after the
\* user Message; the session has no other assistant Message.
C2_Refused(s) == why[s] = "none" /\ why'[s] \in {"NoKey", "NotOk"}
C2_NoticeOnly ==
  [][\A s \in Sessions : C2_Refused(s) =>
       /\ ~isLoading' /\ pc'[s] = "exit"
       /\ messages' # <<>>
       /\ messages'[Len(messages')] =
            [role |-> "assistant", by |-> s,
             content |-> <<Warn>> \o (IF why'[s] = "NoKey" THEN NoKeyText
                                      ELSE RejectedText)]
       /\ Front(messages') =
            IF why'[s] = "NoKey"
            THEN Append(messages, UserMessage(s, Trim(inputValue)))
            ELSE messages
       /\ \A i \in 1..(Len(messages') - 1) :
            messages'[i].by = s => messages'[i].role = "user"]_vars
C2_Witness ==
  \E s \in Sessions :
    /\ why[s] = "NotOk"
    /\ Len(messages) = 2
    /\ messages[1] = UserMessage(s, <<"q">>)
    /\ messages[2].role = "assistant" /\ messages[2].content = <<Warn>> \o RejectedText

\* C3: after an end or error frame of a session, a later read of that session
\* changes neither the transcript nor the loading flag nor the narration.
C3_TerminalExclusive ==
  [][\A s \in Sessions : (ended[s] # NoEnd /\ Read(s)) =>
       (messages' = messages /\ isLoading' = isLoading /\ spoken' = spoken)]_vars

\* C4: a session that has built some content and then applied its end frame
\* has called onSpeak exactly once, with the content its frames had built
\* before the end frame; a session whose first terminal frame is an error has
\* not called it.
SpokenBy(s) == {i \in 1..Len(spoken) : spoken[i].by = s}
C4_NarratesFinalContent ==
  \A s \in Sessions :
    /\ (pc[s] = "read" /\ ended[s].kind = "end" /\ ended[s].before # <<>>) =>
         /\ Cardinality(SpokenBy(s)) = 1
         /\ \A i \in SpokenBy(s) : spoken[i].text = ended[s].before
    /\ (pc[s] = "read" /\ ended[s].kind = "error") => SpokenBy(s) = {}

\* C5: stopGenerating ends every session that is sending or streaming as
\* cancelled and leaves the transcript as it is: the partial content stays,
\* nothing is appended.
C5_CancelKeepsPartial ==
  [][StopGenerating =>
       /\ messages' = messages
       /\ ~isLoading'
       /\ \A s \in Sessions : (Sending(s) \/ Streaming(s)) =>
            (pc'[s] = "exit" /\ why'[s] = "AbortError")]_vars
C5_Witness ==
  \E s \in Sessions :
    /\ why[s] = "AbortError"
    /\ \E i \in OwnAssistant(s) : messages[i].content = <<"a">>

\* C6: while a session has applied content frames only, its assistant Message
\* holds the concatenation of their payloads in arrival order.
C6_Ordering ==
  \A s \in Sessions : Streaming(s) =>
    \A i \in OwnAssistant(s) : messages[i].content = got[s]

\* C7: a line with the prefix and a body that is no JSON, and a line without
\* the prefix, change nothing and leave the loop running; a valid line after
\* one is applied as it is without it.
BadLines == {<<"D", "C", "a">>, <<>>}
C7_SameAsWithout ==
  \A s \in Sessions : pc[s] = "read" =>
    \A bad \in BadLines, good \in LineMenu :
      /\ ApplyAll(Now, s, Feed(<<>>, <<>>, bad \o <<NL>>).parsed) = Now
      /\ ApplyAll(Now, s, Feed(<<>>, <<>>, bad \o <<NL>> \o good \o <<NL>>).parsed)
           = ApplyAll(Now, s, Feed(<<>>, <<>>, good \o <<NL>>).parsed)
C7_MalformedDropped ==
  /\ []C7_SameAsWithout
  /\ [][(nlines' > nlines /\ ndropped' - ndropped = nlines' - nlines) =>
          (messages' = messages /\ isLoading' = isLoading /\ spoken' = spoken
           /\ pc' = pc /\ ended' = ended /\ got' = got)]_vars
C7_Witness ==
  \E s \in Sessions :
    /\ pc[s] = "read" /\ ndropped = 1 /\ nlines = 2
    /\ got[s] = <<Decoded2>>
    /\ \E i \in OwnAssistant(s) : messages[i].content = <<Decoded2>>

\* C8: when the body ends while the buffer holds a line that decodes to a
\* frame, that frame is applied like any other.
C8_FlushAtEnd ==
  [][\A s \in Sessions : (pc[s] = "read" /\ ReadDone(s)) =>
       LET p == ParseLine(buffer[s])
       IN IsFrame(p) =>
            [messages |-> messages', isLoading |-> isLoading', spoken |-> spoken']
              = ApplyParsed(Now, s, p)]_vars

\* C9: once sendMessage has returned for the latest session, the loading
\* flag is clear.
C9_Finalizes ==
  \A s \in Sessions : (s = abortControllerRef /\ pc[s] = "exit") => ~isLoading

\* C10: at most one request or read loop is in flight.
C10_OneActive == Cardinality({s \in Sessions : Live(s)}) <= 1

\* C11: a read of a session changes no Message but the assistant Message that
\* session appended, and adds or removes none.
C11_OwnMessageOnly ==
  [][\A s \in Sessions : Read(s) =>
       /\ Len(messages') = Len(messages)
       /\ \A i \in 1..Len(messages) :
            messages'[i] # messages[i] => i \in OwnAssistant(s)]_vars

\* C12: no session has more than one assistant Message in the transcript; a
\* transport failure after the assistant Message was appended adds no second.
C12_OneAssistant ==
  \A s \in Sessions : Cardinality(OwnAssistant(s)) <= 1

\* C13: a session ended by stopGenerating reads nothing more, and the stop
\* itself applies nothing of what the session had buffered: transcript and
\* narration stay as they were.
C13_NothingAfterCancel ==
  [][/\ \A s \in Sessions : why[s] = "AbortError" => (pc[s] = "exit" /\ ~Read(s))
     /\ StopGenerating => (messages' = messages /\ spoken' = spoken)]_vars
C13_Witness ==
  \E s \in Sessions :
    /\ why[s] = "AbortError" /\ pc[s] = "exit"
    /\ nlines = 1
    /\ spoken = <<>>
    /\ \E i \in OwnAssistant(s) : messages[i].content = <<Decoded2>>

\* C14: in every state where a session is streaming, applying an error frame
\* (with a description, or without one) clears the loading flag, replaces the
\* content of that session's assistant Message by the marked error text, adds
\* or removes no Message and leaves every other Message as it was.
ErrorLines ==
  { [line |-> <<"D", "X", "a", "Q">>, text |-> <<Warn, "a">>],
    [line |-> <<"D", "Y">>, text |-> <<Warn>> \o FailedText] }
C14_InBandError ==
  \A s \in Sessions : Streaming(s) =>
    \A e \in ErrorLines :
      LET st == ApplyParsed(Now, s, ParseLine(e.line))
      IN /\ ~st.isLoading
         /\ Len(st.messages) = Len(messages)
         /\ \A i \in 1..Len(messages) :
              IF i \in OwnAssistant(s)
              THEN st.messages[i] = [messages[i] EXCEPT !.content = e.text]
              ELSE st.messages[i] = messages[i]

====
